---- MODULE Spec2Model ----
(***************************************************************************)
(* The notebook the_Flow_Director_Accumulator_PriorityFlood.ipynb as a     *)
(* state machine: its code cells are one sequential script, one statement  *)
(* per step.  The state is what the script itself holds: the names bound   *)
(* in the namespace, the grid objects it has constructed and the fields it *)
(* has added to each, the router objects it has built and how often each   *)
(* was run, and the record of every call it has made.                      *)
(*                                                                         *)
(* RasterModelGrid, PriorityFloodFlowRouter and drainage_plot are imported *)
(* from landlab (lines 27-29); their code is not part of the notebook.     *)
(* The model keeps of them what the script passes in, which fields it     *)
(* reads back, and what the notebook's text says of them (the field        *)
(* water__unit_flux_in a run leaves on the grid, the clobber keyword); the *)
(* values run_one_step() computes are not modelled.                        *)
(***************************************************************************)
EXTENDS Integers, Sequences, FiniteSets

VARIABLES
    pc,        \* index into Script of the next statement to execute
    names,     \* names bound in the notebook's namespace
    grids,     \* number of RasterModelGrid objects constructed so far
    mg,        \* the grid object bound to `mg` (0: unbound)
    fa,        \* the router object bound to `fa` (0: unbound)
    routers,   \* routers[r]: the grid and flow_metric router r was built with
    runs,      \* runs[r]: number of run_one_step() calls on router r
    fields,    \* fields[g]: field name -> node array, as added by the notebook
    hidden,    \* hidden[g]: names of the fields the router has created on grid g
    rain,      \* the array bound to `rain` (<< >> while unbound)
    log,       \* the calls made so far, in order
    failed     \* TRUE once a statement has raised

vars == <<pc, names, grids, mg, fa, routers, runs, fields, hidden, rain, log, failed>>

----------------------------------------------------------------------------
\* Bound of the model: the number of nodes whose rain sample is tracked.
MaxTracked == 2

\* RasterModelGrid((10, 10))
Rows == 10
Cols == 10
\* rain = 1.0 + 5.0 * np.random.rand(...)
RainBase == 1
RainScale == 5
\* the first router the notebook builds
FirstRouterLine == 115

Nodes == 0..(Rows * Cols - 1)

Surface == "topographic__elevation"
FluxIn == "water__unit_flux_in"

\* The fields run_one_step() computes that the notebook reads back:
\* drainage_area and surface_water__discharge by name, the receiver network
\* (named flow__receiver_node here) through drainage_plot.
ComputedFields == {"drainage_area", "surface_water__discharge", "flow__receiver_node"}

\* mg.x_of_node, mg.y_of_node: unit spacing, nodes numbered row by row.
x_of_node(n) == n % Cols
y_of_node(n) == n \div Cols

\* 3.0 * mg.x_of_node**2 + mg.y_of_node**2
Elevation == [n \in Nodes |-> 3 * x_of_node(n) * x_of_node(n) + y_of_node(n) * y_of_node(n)]

\* The rain array has one independent sample per node.  The model follows it
\* at the nodes of TrackedNodes (on the diagonal: node 0 on the boundary, then
\* core nodes); the samples at the other nodes are not represented.
TrackedNodes == {i * (Cols + 1) : i \in 0..(MaxTracked - 1)}

\* One sample u of np.random.rand, a double in [0, 1): level is the k with
\* k / 5 <= u < (k + 1) / 5, pos says whether u is the largest sample of that
\* interval ("top"), the second largest ("next") or any other ("below").
Samples == [level : 0..(RainScale - 1), pos : {"top", "next", "below"}]

\* np.random.rand(mg.number_of_nodes) at the tracked nodes: every combination
\* of samples.
Rand == [TrackedNodes -> Samples]

\* The samples whose product 5.0 * u is rounded to the next whole number:
\* 5.0 * 0.6 is 3.0.
ProductIsWhole == {<<2, "top">>}

\* The samples whose product 5.0 * u is the largest double below the next
\* whole number: 5.0 * 0.7999999999999999 is 3.9999999999999996, and
\* 5.0 * 0.9999999999999999 and 5.0 * 0.9999999999999998 are 4.999999999999999.
ProductIsLast == {<<3, "top">>, <<4, "top">>, <<4, "next">>}

\* 5.0 * u in double arithmetic: its value rounded down, and whether it is the
\* largest double below the next whole number.
Product(s) ==
    [floor |-> IF <<s.level, s.pos>> \in ProductIsWhole THEN s.level + 1 ELSE s.level,
     last |-> <<s.level, s.pos>> \in ProductIsLast]

\* The whole numbers n for which 1.0 + p, p the largest double below n + 1, is
\* rounded to n + 2 (a tie, rounded to even): 1.0 + 3.9999999999999996 is 5.0,
\* while 1.0 + 2.9999999999999996 and 1.0 + 4.999999999999999 are exact.
SumRoundsUp == {0, 1, 3}

\* 1.0 + p in double arithmetic, rounded down to a whole number.
Sum(p) == IF p.last /\ p.floor \in SumRoundsUp THEN RainBase + p.floor + 1 ELSE RainBase + p.floor

\* 1.0 + 5.0 * u, rounded down to a whole number.
RainOf(u) == [n \in DOMAIN u |-> Sum(Product(u[n]))]

----------------------------------------------------------------------------
\* The script: the statements of the code cells in cell order.

Stmt(op, arg, line) == [op |-> op, arg |-> arg, line |-> line]

\* Buggy variant of a flow-metric section: the router is built before the
\* elevation field is added.
SectionRouterFirst(metric, first, wrap) ==
    << Stmt("grid", "", first),
       Stmt("router", metric, first + 4),
       Stmt("add_elev", Surface, first + 1),
       Stmt("run", "", first + 5 + wrap),
       Stmt("plt", "figure", first + 6 + wrap),
       Stmt("drainage_plot", "surface_water__discharge", first + 7 + wrap) >>

\* One flow-metric section (D4 ... Dinf): a new grid, its elevation, a router
\* with that flow_metric, one run, one discharge plot.  wrap is the number of
\* extra lines the router call takes (Freeman, Holmgren).
Section(metric, first, wrap) ==
    << Stmt("grid", "", first),
       Stmt("add_elev", Surface, first + 1),
       Stmt("router", metric, first + 4),
       Stmt("run", "", first + 5 + wrap),
       Stmt("plt", "figure", first + 6 + wrap),
       Stmt("drainage_plot", "surface_water__discharge", first + 7 + wrap) >>

Script ==
    << Stmt("import", "", 23),
       Stmt("def", "surf_plot", 33),
       Stmt("grid", "", 73),
       Stmt("add_elev", Surface, 74),
       Stmt("surf_plot", Surface, 77),
       Stmt("router", "default", 115),
       Stmt("router", "D8", 118),
       Stmt("run", "", 141),
       Stmt("plt", "figure", 169),
       Stmt("drainage_plot", Surface, 170),
       Stmt("plt", "figure", 186),
       Stmt("drainage_plot", "drainage_area", 187),
       Stmt("print_field", "drainage_area", 203),
       Stmt("print_core", "", 219),
       Stmt("rain", "", 237),
       Stmt("plt", "imshow", 239),
       Stmt("plt", "colorbar", 240),
       Stmt("plt", "show", 241),
       Stmt("add_rain", FluxIn, 243),
       Stmt("run", "", 259),
       Stmt("plt", "figure", 260),
       Stmt("drainage_plot", "surface_water__discharge", 261) >>
    \o Section("D4", 285, 0)
    \o Section("Rho8", 308, 0)
    \o Section("Rho4", 331, 0)
    \o Section("Quinn", 354, 0)
    \o Section("Freeman", 377, 2)
    \o Section("Holmgren", 402, 2)
    \o Section("Dinf", 427, 0)

Done == pc = Len(Script) + 1

\* The statement about to execute.
At(op) == ~failed /\ pc \in DOMAIN Script /\ Script[pc].op = op

Event(ev, g, r, f) == [ev |-> ev, grid |-> g, router |-> r, field |-> f, line |-> Script[pc].line]

----------------------------------------------------------------------------
Init ==
    /\ pc = 1
    /\ names = {}
    /\ grids = 0
    /\ mg = 0
    /\ fa = 0
    /\ routers = << >>
    /\ runs = << >>
    /\ fields = << >>
    /\ hidden = << >>
    /\ rain = << >>
    /\ log = << >>
    /\ failed = FALSE

\* A statement that raises ends the script.
Raise ==
    /\ failed' = TRUE
    /\ UNCHANGED <<pc, names, grids, mg, fa, routers, runs, fields, hidden, rain, log>>

\* A statement that raises after it has made the call e.
RaiseAfter(e) ==
    /\ failed' = TRUE
    /\ log' = Append(log, e)
    /\ UNCHANGED <<pc, names, grids, mg, fa, routers, runs, fields, hidden, rain>>

\* import matplotlib.pyplot as plt ... from landlab.plot.drainage_plot import drainage_plot
Import ==
    /\ At("import")
    /\ names' = names \cup {"plt", "np", "cm", "RasterModelGrid",
                            "PriorityFloodFlowRouter", "drainage_plot"}
    /\ pc' = pc + 1
    /\ UNCHANGED <<grids, mg, fa, routers, runs, fields, hidden, rain, log, failed>>

\* def surf_plot(mg, surface=..., title=...)
DefSurfPlot ==
    /\ At("def")
    /\ names' = names \cup {Script[pc].arg}
    /\ pc' = pc + 1
    /\ UNCHANGED <<grids, mg, fa, routers, runs, fields, hidden, rain, log, failed>>

\* mg = RasterModelGrid((10, 10)): a new grid object, holding no field, bound to mg.
NewGrid ==
    /\ At("grid")
    /\ IF "RasterModelGrid" \notin names
       THEN Raise
       ELSE /\ grids' = grids + 1
            /\ mg' = grids + 1
            /\ fields' = Append(fields, << >>)
            /\ hidden' = Append(hidden, {})
            /\ names' = names \cup {"mg"}
            /\ log' = Append(log, Event("grid", grids + 1, 0, ""))
            /\ pc' = pc + 1
            /\ UNCHANGED <<fa, routers, runs, rain, failed>>

\* mg.add_field(name, values, at="node", clobber=clobber) on grid g: a field of
\* that name the grid already has, added by the notebook or created by the
\* router under the hood, is replaced with clobber and is an error without.
add_field(g, name, values, clobber) ==
    IF name \in (DOMAIN fields[g] \cup hidden[g]) /\ ~clobber
    THEN Raise
    ELSE /\ fields' = [fields EXCEPT ![g] =
                 [f \in DOMAIN fields[g] \cup {name} |->
                     IF f = name THEN values ELSE fields[g][f]]]
         /\ hidden' = [hidden EXCEPT ![g] = @ \ {name}]
         /\ log' = Append(log, Event("add_field", g, 0, name))
         /\ pc' = pc + 1
         /\ UNCHANGED <<names, grids, mg, fa, routers, runs, rain, failed>>

\* _ = mg.add_field("topographic__elevation", 3.0 * mg.x_of_node**2 + mg.y_of_node**2, at="node")
AddElevation ==
    /\ At("add_elev")
    /\ IF "mg" \notin names
       THEN Raise
       ELSE add_field(mg, Script[pc].arg, Elevation, FALSE)

\* surf_plot(mg, title="Grid 1"): plt.figure() and plt.axes(), then
\* Z = mg.at_node[surface].reshape(mg.shape), then cm.gray(...) and the plot.
SurfPlot ==
    /\ At("surf_plot")
    /\ IF ~({"surf_plot", "mg", "plt"} \subseteq names) \/ Script[pc].arg \notin DOMAIN fields[mg]
       THEN Raise
       ELSE IF "cm" \notin names
       THEN RaiseAfter(Event("read", mg, 0, Script[pc].arg))
       ELSE /\ log' = Append(log, Event("read", mg, 0, Script[pc].arg))
            /\ pc' = pc + 1
            /\ UNCHANGED <<names, grids, mg, fa, routers, runs, fields, hidden, rain, failed>>

\* fa = PriorityFloodFlowRouter(mg, ...): a new router object on the grid bound
\* to mg, bound to fa; the router fa named before is no longer reachable.
NewRouter ==
    /\ At("router")
    /\ IF ~({"PriorityFloodFlowRouter", "mg"} \subseteq names)
       THEN Raise
       ELSE /\ routers' = Append(routers, [grid |-> mg, flow_metric |-> Script[pc].arg])
            /\ runs' = Append(runs, 0)
            /\ fa' = Len(routers) + 1
            /\ names' = names \cup {"fa"}
            /\ log' = Append(log, Event("router", mg, Len(routers) + 1, ""))
            /\ pc' = pc + 1
            /\ UNCHANGED <<grids, mg, fields, hidden, rain, failed>>

\* fa.run_one_step().  Once it has run, the router's grid has the fields the
\* notebook reads back without adding them (drainage_area,
\* surface_water__discharge, the receiver network) and a field
\* water__unit_flux_in under the hood (markdown after the first run), each unless
\* the notebook has added one of that name itself.  The notebook does not show
\* whether the router creates them already when it is built.
RunOneStep ==
    /\ At("run")
    /\ IF "fa" \notin names
       THEN Raise
       ELSE /\ runs' = [runs EXCEPT ![fa] = @ + 1]
            /\ hidden' = [hidden EXCEPT ![routers[fa].grid] =
                   @ \cup ((ComputedFields \cup {FluxIn}) \ DOMAIN fields[routers[fa].grid])]
            /\ log' = Append(log, Event("run", routers[fa].grid, fa, ""))
            /\ pc' = pc + 1
            /\ UNCHANGED <<names, grids, mg, fa, routers, fields, rain, failed>>

\* plt.figure(), plt.imshow(rain.reshape(mg.shape), ...), plt.colorbar(), plt.show()
PltCall ==
    /\ At("plt")
    /\ IF "plt" \notin names \/ (Script[pc].arg = "imshow" /\ ~({"rain", "mg"} \subseteq names))
       THEN Raise
       ELSE /\ pc' = pc + 1
            /\ UNCHANGED <<names, grids, mg, fa, routers, runs, fields, hidden, rain, log, failed>>

\* drainage_plot(mg, surface): the surface field as the background, the
\* receiver network as the arrows.
DrainagePlot ==
    /\ At("drainage_plot")
    /\ IF ~({"drainage_plot", "mg"} \subseteq names)
       THEN Raise
       ELSE /\ log' = log \o << Event("read", mg, 0, Script[pc].arg),
                                Event("read", mg, 0, "flow__receiver_node") >>
            /\ pc' = pc + 1
            /\ UNCHANGED <<names, grids, mg, fa, routers, runs, fields, hidden, rain, failed>>

\* print(mg.at_node["drainage_area"].reshape(mg.shape))
PrintField ==
    /\ At("print_field")
    /\ IF "mg" \notin names
       THEN Raise
       ELSE /\ log' = Append(log, Event("read", mg, 0, Script[pc].arg))
            /\ pc' = pc + 1
            /\ UNCHANGED <<names, grids, mg, fa, routers, runs, fields, hidden, rain, failed>>

\* print(mg.number_of_core_nodes): a property of the grid, no field.
PrintCoreNodes ==
    /\ At("print_core")
    /\ IF "mg" \notin names
       THEN Raise
       ELSE /\ pc' = pc + 1
            /\ UNCHANGED <<names, grids, mg, fa, routers, runs, fields, hidden, rain, log, failed>>

\* rain = 1.0 + 5.0 * np.random.rand(mg.number_of_nodes)
MakeRain ==
    /\ At("rain")
    /\ IF ~({"np", "mg"} \subseteq names)
       THEN Raise
       ELSE /\ \E u \in Rand : rain' = RainOf(u)
            /\ names' = names \cup {"rain"}
            /\ pc' = pc + 1
            /\ UNCHANGED <<grids, mg, fa, routers, runs, fields, hidden, log, failed>>

\* _ = mg.add_field("water__unit_flux_in", rain, at="node", clobber=True)
AddRain ==
    /\ At("add_rain")
    /\ IF ~({"rain", "mg"} \subseteq names)
       THEN Raise
       ELSE add_field(mg, Script[pc].arg, rain, TRUE)

Next ==
    \/ Import
    \/ DefSurfPlot
    \/ NewGrid
    \/ AddElevation
    \/ SurfPlot
    \/ NewRouter
    \/ RunOneStep
    \/ PltCall
    \/ DrainagePlot
    \/ PrintField
    \/ PrintCoreNodes
    \/ MakeRain
    \/ AddRain

Spec == Init /\ [][Next]_vars

----------------------------------------------------------------------------
\* The order of the calls recorded in log.

\* Some call before position i satisfies P.
Earlier(i, P(_)) == \E j \in 1..(i - 1) : P(log[j])

\* Some call after position i satisfies P.
Later(i, P(_)) == \E j \in (i + 1)..Len(log) : P(log[j])

\* The calls come in the order grid, elevation, router, run, read:
\* elevation is added to a grid already constructed, a router is built on a grid
\* that already holds topographic__elevation, run_one_step() is invoked on a
\* router already built, and a computed field of a grid is read only after a
\* run_one_step() of a router of that grid.
CallsInOrder ==
    \A i \in DOMAIN log :
        LET e == log[i] IN
        /\ (e.ev = "add_field" /\ e.field = Surface) =>
               Earlier(i, LAMBDA d : d.ev = "grid" /\ d.grid = e.grid)
        /\ e.ev = "router" =>
               Earlier(i, LAMBDA d : d.ev = "add_field" /\ d.field = Surface /\ d.grid = e.grid)
        /\ e.ev = "run" =>
               Earlier(i, LAMBDA d : d.ev = "router" /\ d.router = e.router)
        /\ (e.ev = "read" /\ e.field \in ComputedFields) =>
               Earlier(i, LAMBDA d : d.ev = "run" /\ d.grid = e.grid)

\* The router built by call i is run afterwards.
IsRun(i) == Later(i, LAMBDA d : d.ev = "run" /\ d.router = log[i].router)

\* The router built by call i is replaced, as the very next call, by a router
\* on the same grid.
ReplacedAtOnce(i) ==
    /\ i + 1 \in DOMAIN log
    /\ log[i + 1].ev = "router"
    /\ log[i + 1].grid = log[i].grid

\* C6 as stated: the notebook's steps occur in the fixed order grid,
\* topographic__elevation, router (never on a grid lacking the elevation
\* field), run_one_step(), read of a computed field, and this for every router
\* the notebook builds: each of them is run.
C6_EveryRouterRunInOrder ==
    /\ ~failed
    /\ CallsInOrder
    /\ Done => \A i \in DOMAIN log : log[i].ev = "router" => IsRun(i)

\* C6 as amended: the steps occur in that fixed order and no statement raises;
\* every router the notebook builds is run, except the first one (line 115),
\* which is replaced by the router of line 118 on the same grid before any
\* run_one_step(), and that replacement is run.
C6_RoutersRunInOrder ==
    /\ ~failed
    /\ CallsInOrder
    /\ Done => \A i \in DOMAIN log : log[i].ev = "router" =>
           \/ IsRun(i)
           \/ /\ log[i].line = FirstRouterLine
              /\ ReplacedAtOnce(i)
              /\ IsRun(i + 1)

\* The script has run to its end: nine routers on eight grids, the first never
\* run, the second run twice, and the discharge of the last grid was plotted.
C6_Witness ==
    /\ Done
    /\ Len(routers) = 9
    /\ grids = 8
    /\ runs[1] = 0
    /\ runs[2] = 2
    /\ \A r \in 3..9 : runs[r] = 1
    /\ \E i \in DOMAIN log :
           log[i].ev = "read" /\ log[i].grid = 8 /\ log[i].field = "surface_water__discharge"

====
